---- MODULE Spec2Model ----
(***************************************************************************)
(* Classical part of grove's Simon algorithm (grove/alpha/simon/simon.py): *)
(* the Simon object, its basis of bit vectors keyed by provenance (index   *)
(* of the first 1), the completion of the basis, the back substitution     *)
(* and the check of the mask against the truth table.                      *)
(*                                                                         *)
(* Bit vectors are Python lists of 0/1; they are modelled as functions     *)
(* with domain 0..n-1, index 0 being the leftmost (most significant) bit.  *)
(* Bit strings (keys and values of the truth table) are functions with     *)
(* domain 0..n-1 into {"0","1"}.  Python's None is NoneV where a list, a   *)
(* dict or a string is expected and NoInt where an int is expected.        *)
(***************************************************************************)
EXTENDS Integers, FiniteSets, Sequences, TLC

\* Largest number of bits n of a truth table drawn by the model.
MaxN == 3

\* Largest number of distinct bit vectors fed to the basis where the
\* vectors fed are recorded.
MaxFed == 3

\* None, for attributes that otherwise hold an int (simon.py:121).
NoInt == -1

\* None, for attributes that otherwise hold a list, a dict or a string.
NoneV == << >>

VARIABLES
    bitstring_map,    \* the argument of the last call of find_mask or _init_attr
    bit_map,          \* self.bit_map: the truth table, or None
    n_qubits,         \* self.n_qubits
    dict_of_linearly_indep_bit_vectors,  \* self._dict_of_linearly_indep_bit_vectors
    mask,             \* self.mask
    pc,               \* position of find_mask's control
    cxn,              \* kind of the connection handed to find_mask
    cxn_called,       \* whether cxn.run_and_measure ran during the current call
    z,                \* the last bit vector handed to _add_to_dict_of_indep_bit_vectors
    op,               \* the method that ran last
    ret,              \* what the last method returned (NoneV for None)
    exc,              \* what the last method raised ("none" if nothing)
    missing_prov,     \* missing_prov of the last run of the completer
    upper_triangular_matrix,  \* the matrix of the last _invert_mask_equation
    fed               \* history, kept by SpecSpan only: the bit vectors handed
                      \* to _add_to_dict_of_indep_bit_vectors so far

vars == <<bitstring_map, bit_map, n_qubits, dict_of_linearly_indep_bit_vectors,
          mask, pc, cxn, cxn_called, z, op, ret, exc, missing_prov,
          upper_triangular_matrix, fed>>

(***************************************************************************)
(* Bit vectors and bit strings                                             *)
(***************************************************************************)
BitVectors(n) == [0..(n - 1) -> {0, 1}]

BitStrings(n) == [0..(n - 1) -> {"0", "1"}]

Length(v) == Cardinality(DOMAIN v)

\* all(np.asarray(v) == b)
AllEqual(v, b) == \A idx \in DOMAIN v : v[idx] = b

\* a ^ b on ints 0/1
BitXor(a, b) == IF a = b THEN 0 ELSE 1

\* u.most_significant_bit(lst): the first position, reading left to right,
\* where a 1 appears.
most_significant_bit(lst) ==
    CHOOSE idx \in DOMAIN lst :
        lst[idx] = 1 /\ \A j \in DOMAIN lst : j < idx => lst[j] = 0

\* u.bitwise_xor(bs0, bs1) on two bit strings of equal length.
bitwise_xor(bs0, bs1) ==
    [idx \in DOMAIN bs0 |-> IF bs0[idx] = bs1[idx] THEN "0" ELSE "1"]

\* str(b) for a bit b
Str(b) == IF b = 1 THEN "1" ELSE "0"

\* "{0:0nb}".format(x): x in binary, zero padded to n characters
RECURSIVE Pow2(_)
Pow2(k) == IF k = 0 THEN 1 ELSE 2 * Pow2(k - 1)

FormatBits(x, n) ==
    [idx \in 0..(n - 1) |-> Str((x \div Pow2(n - 1 - idx)) % 2)]

\* int(bs, 2)
RECURSIVE IntOfPrefix(_, _)
IntOfPrefix(bs, k) ==
    IF k = 0 THEN 0
    ELSE 2 * IntOfPrefix(bs, k - 1) + (IF bs[k - 1] = "1" THEN 1 ELSE 0)

IntOf(bs) == IntOfPrefix(bs, Length(bs))

(***************************************************************************)
(* Truth tables handed to find_mask                                        *)
(***************************************************************************)
\* The dict {key: value} whose value at the key of integer x is the bit
\* string of F[x].
TableOf(n, F) == [k \in BitStrings(n) |-> FormatBits(F[IntOf(k)], n)]

\* x XOR s on n-bit integers, as create_periodic_1to1_bitmap computes it.
XorInt(x, s, n) == IntOf(bitwise_xor(FormatBits(x, n), FormatBits(s, n)))

Min(a, b) == IF a <= b THEN a ELSE b

\* A valid 2-to-1 truth table of mask s: both x and x XOR s map to the same
\* value, and different pairs map to different values.
PeriodicTable(n, s) ==
    TableOf(n, [x \in 0..(Pow2(n) - 1) |-> Min(x, XorInt(x, s, n))])

\* The truth table of the docstring of create_valid_2to1_bitmap (mask 110).
ExampleTable ==
    TableOf(3, [x \in 0..7 |->
        CASE x = 0 -> 5 [] x = 1 -> 2 [] x = 2 -> 0 [] x = 3 -> 6
          [] x = 4 -> 0 [] x = 5 -> 6 [] x = 6 -> 5 [] x = 7 -> 2])

\* A 1-to-1 truth table: no mask other than 0...0 fits it.
IdentityTable(n) == TableOf(n, [x \in 0..(Pow2(n) - 1) |-> x])

\* A constant truth table: every mask fits it.
ConstantTable(n) == TableOf(n, [x \in 0..(Pow2(n) - 1) |-> 0])

\* A truth table that is neither 1-to-1 nor periodic.
SpikeTable(n) == TableOf(n, [x \in 0..(Pow2(n) - 1) |-> Min(x, 1)])

\* A 4-to-1 truth table (for n >= 2): the masks 0...01, 0...010, 0...011 fit.
PrefixTable(n) == TableOf(n, [x \in 0..(Pow2(n) - 1) |-> 4 * (x \div 4)])

Tables(n) ==
    {PeriodicTable(n, s) : s \in 1..(Pow2(n) - 1)}
        \cup {IdentityTable(n), ConstantTable(n), SpikeTable(n), PrefixTable(n)}
        \cup (IF n = 3 THEN {ExampleTable} ELSE {})

AllTables == UNION {Tables(n) : n \in 1..MaxN}

\* What find_mask may be handed as bitstring_map: a dict, or something that
\* is no dict (a plain list of bit strings, None).
Mappings == {[kind |-> "dict", value |-> t] : t \in AllTables}

\* The truth tables the components are set up with when they are called one
\* by one: of the basis, the completer and the solver only n matters.
UnitMappings ==
    {[kind |-> "dict", value |-> t] :
        t \in UNION {{IdentityTable(n), ConstantTable(n),
                      PeriodicTable(n, Pow2(n) - 1)} : n \in 1..MaxN}}

NonMappings ==
    {[kind |-> "list", value |-> <<FormatBits(0, 1), FormatBits(1, 1)>>],
     [kind |-> "NoneType", value |-> NoneV]}

(***************************************************************************)
(* The basis: _add_to_dict_of_indep_bit_vectors                            *)
(***************************************************************************)
\* d[key] = value on a Python dict
Put(d, key, value) ==
    [k \in DOMAIN d \cup {key} |-> IF k = key THEN value ELSE d[k]]

\* A slip in the test that opens _add_to_dict_of_indep_bit_vectors: only
\* the vector of zeros is refused.
IsAllZero(zz) == AllEqual(zz, 0)

\* The test that opens _add_to_dict_of_indep_bit_vectors: the vector is all
\* zeros or all ones.
IsDegenerate(zz) == AllEqual(zz, 0) \/ AllEqual(zz, 1)

\* A slip in _add_to_dict_of_indep_bit_vectors: not_z is the bitwise
\* complement of z.
ComplementVec(conflict_z, zz) ==
    [idx \in 0..(Length(zz) - 1) |-> 1 - zz[idx]]

\* not_z = [conflict_z[idx] ^ z[idx] for idx in range(len(z))]
XorVec(conflict_z, zz) ==
    [idx \in 0..(Length(zz) - 1) |-> BitXor(conflict_z[idx], zz[idx])]

\* A slip in _add_to_dict_of_indep_bit_vectors: on a conflict the sample
\* itself, not its XOR with the conflicting entry, is stored.
add_storing_the_sample(d, zz) ==
    IF IsDegenerate(zz) THEN d
    ELSE LET msb_z == most_significant_bit(zz) IN
         IF msb_z \notin DOMAIN d THEN Put(d, msb_z, zz)
         ELSE LET conflict_z == d[msb_z]
                  not_z == XorVec(conflict_z, zz)
              IN  IF AllEqual(not_z, 0) THEN d
                  ELSE LET msb_not_z == most_significant_bit(not_z) IN
                       IF msb_not_z \notin DOMAIN d
                       THEN Put(d, msb_not_z, zz)
                       ELSE d

\* A slip in _add_to_dict_of_indep_bit_vectors: on a conflict the XOR is
\* stored under the provenance of the sample, in place of the conflicting
\* entry.
add_overwriting_the_conflict(d, zz) ==
    IF IsDegenerate(zz) THEN d
    ELSE LET msb_z == most_significant_bit(zz) IN
         IF msb_z \notin DOMAIN d THEN Put(d, msb_z, zz)
         ELSE LET conflict_z == d[msb_z]
                  not_z == XorVec(conflict_z, zz)
              IN  IF AllEqual(not_z, 0) THEN d
                  ELSE Put(d, msb_z, not_z)

\* A slip in _add_to_dict_of_indep_bit_vectors: when the provenance of the
\* XOR is taken too, the XOR is reduced once more by the entry found there.
add_reducing_again(d, zz) ==
    IF IsDegenerate(zz) THEN d
    ELSE LET msb_z == most_significant_bit(zz) IN
         IF msb_z \notin DOMAIN d THEN Put(d, msb_z, zz)
         ELSE LET conflict_z == d[msb_z]
                  not_z == XorVec(conflict_z, zz)
              IN  IF AllEqual(not_z, 0) THEN d
                  ELSE LET msb_not_z == most_significant_bit(not_z) IN
                       IF msb_not_z \notin DOMAIN d
                       THEN Put(d, msb_not_z, not_z)
                       ELSE LET again == XorVec(d[msb_not_z], not_z) IN
                            IF AllEqual(again, 0) THEN d
                            ELSE IF most_significant_bit(again) \notin DOMAIN d
                                 THEN Put(d, most_significant_bit(again), again)
                                 ELSE d

\* The dict after self._add_to_dict_of_indep_bit_vectors(zz) on the dict d.
add_to_dict_of_indep_bit_vectors(d, zz) ==
    IF IsDegenerate(zz) THEN d
    ELSE LET msb_z == most_significant_bit(zz) IN
         IF msb_z \notin DOMAIN d THEN Put(d, msb_z, zz)
         ELSE LET conflict_z == d[msb_z]
                  not_z == XorVec(conflict_z, zz)
              IN  IF AllEqual(not_z, 0) THEN d
                  ELSE LET msb_not_z == most_significant_bit(not_z) IN
                       IF msb_not_z \notin DOMAIN d
                       THEN Put(d, msb_not_z, not_z)
                       ELSE d

\* A slip in _add_to_dict_of_indep_bit_vectors: the sample is handed back.
add_returns_the_sample(d, zz) == zz

\* What _add_to_dict_of_indep_bit_vectors returns: both return statements
\* are bare and the end of the body returns nothing, so None in every case.
add_returns(d, zz) == NoneV

(***************************************************************************)
(* The completer: _add_missing_provenance_vector                           *)
(***************************************************************************)
\* The loop of _add_missing_provenance_vector from index idx on, missing
\* being the value of missing_prov so far: every index without an entry
\* overwrites it.
RECURSIVE ScanMissing(_, _, _, _)
ScanMissing(d, n, idx, missing) ==
    IF idx >= n THEN missing
    ELSE ScanMissing(d, n, idx + 1, IF idx \notin DOMAIN d THEN idx ELSE missing)

\* A slip in the loop of _add_missing_provenance_vector: it stops at the
\* first index without an entry.
RECURSIVE ScanFirstMissing(_, _, _)
ScanFirstMissing(d, n, idx) ==
    IF idx >= n THEN NoInt
    ELSE IF idx \notin DOMAIN d THEN idx ELSE ScanFirstMissing(d, n, idx + 1)

FindFirstMissingProv(d, n) == ScanFirstMissing(d, n, 0)

\* missing_prov after the loop (NoInt for None)
FindMissingProv(d, n) == ScanMissing(d, n, 0, NoInt)

\* augment_vec: zeros with a 1 at position i
UnitVector(n, i) == [idx \in 0..(n - 1) |-> IF idx = i THEN 1 ELSE 0]

\* A slip in _add_missing_provenance_vector: augment_vec[missing_prov] = 1
\* is left out, and the vector of zeros is stored.
add_missing_zero_vector(d, n) ==
    LET missing == FindMissingProv(d, n) IN
    IF missing = NoInt
    THEN [exc |-> "ValueError: Expected a missing provenance, but didn't find one.",
          ret |-> NoInt, dict |-> d]
    ELSE [exc |-> "none", ret |-> missing,
          dict |-> Put(d, missing, [idx \in 0..(n - 1) |-> 0])]

\* _add_missing_provenance_vector on the dict d: what it raises, what it
\* returns and the dict it leaves.
add_missing_provenance_vector(d, n) ==
    LET missing == FindMissingProv(d, n) IN
    IF missing = NoInt
    THEN [exc |-> "ValueError: Expected a missing provenance, but didn't find one.",
          ret |-> NoInt, dict |-> d]
    ELSE [exc |-> "none", ret |-> missing,
          dict |-> Put(d, missing, UnitVector(n, missing))]

(***************************************************************************)
(* The solver: _invert_mask_equation                                       *)
(***************************************************************************)
\* The key that sorted(zip(keys, values), key=lambda x: x[0]) puts at
\* position r.
KeyAt(d, r) ==
    CHOOSE k \in DOMAIN d : Cardinality({j \in DOMAIN d : j < k}) = r

\* upper_triangular_matrix: the values of the dict, ordered by their keys
SortedRows(d) == [r \in 0..(Length(d) - 1) |-> d[KeyAt(d, r)]]

\* XOR over the columns col > row_num of W[row_num][col] AND m[col]
RECURSIVE RowSum(_, _, _, _)
RowSum(row, m, col, n) ==
    IF col >= n THEN 0
    ELSE BitXor(row[col] * m[col], RowSum(row, m, col + 1, n))

\* Back substitution over GF(2) from row row_num up to row 0, m holding the
\* bits solved so far (rows below row_num).
RECURSIVE BackSubstituteFrom(_, _, _, _)
BackSubstituteFrom(W, s, row_num, m) ==
    IF row_num < 0 THEN m
    ELSE BackSubstituteFrom(W, s, row_num - 1,
            [m EXCEPT ![row_num] =
                BitXor(s[row_num], RowSum(W[row_num], m, row_num + 1, Length(s)))])

\* u.binary_back_substitute(W, s): the x with W x = s for an upper
\* triangular W with ones on its diagonal.
binary_back_substitute(W, s) ==
    BackSubstituteFrom(W, s, Length(s) - 1, s)

\* A slip in _invert_mask_equation: provenance_unit[missing_prov] = 1 is
\* left out.
ProvenanceZeros(n, missing) == [idx \in 0..(n - 1) |-> 0]

\* provenance_unit: zeros with a 1 at missing_prov
ProvenanceUnit(n, missing) == UnitVector(n, missing)

\* _invert_mask_equation on the dict d: what it raises, and the dict, the
\* locals and the mask it leaves.
invert_mask_equation(d, n, old_mask) ==
    LET c == add_missing_provenance_vector(d, n) IN
    IF c.exc # "none"
    THEN [exc |-> c.exc, dict |-> c.dict, missing |-> NoInt,
          matrix |-> NoneV, mask |-> old_mask]
    ELSE LET W == SortedRows(c.dict) IN
         [exc |-> "none", dict |-> c.dict, missing |-> c.ret, matrix |-> W,
          mask |-> binary_back_substitute(W, ProvenanceUnit(n, c.ret))]

(***************************************************************************)
(* The validator: _check_mask_correct                                      *)
(***************************************************************************)
\* mask_str = ''.join([str(b) for b in self.mask])
MaskStr(m) == [idx \in DOMAIN m |-> Str(m[idx])]

\* A slip in _check_mask_correct: any([...]) in place of all([...])
AnyTrue(bools) == TRUE \in bools

\* all([...]) over a list of booleans, given as the set of its elements
All(bools) == FALSE \notin bools

\* self._check_mask_correct() with self.mask = m and self.bit_map = table
check_mask_correct(m, table) ==
    LET mask_str == MaskStr(m) IN
    All({table[k] = table[bitwise_xor(k, mask_str)] : k \in DOMAIN table})

\* A slip in _check_mask_correct: the mask is consumed by the check.
MaskDroppedByCheck(m) == NoneV

\* self.mask after _check_mask_correct: the method reads self.mask and
\* self.bit_map and assigns only its local mask_str.
MaskAfterCheck(m) == m

(***************************************************************************)
(* The sampling oracle: cxn.run_and_measure(self.simon_circuit, ...)       *)
(***************************************************************************)
\* The key k XOR the bit vector s
KeyXor(k, s) == [idx \in DOMAIN k |-> IF (k[idx] = "1") # (s[idx] = 1) THEN "1" ELSE "0"]

\* The bit vectors s with table[k] = table[k XOR s] for every key k
Periods(table, n) ==
    {s \in BitVectors(n) : \A k \in DOMAIN table : table[k] = table[KeyXor(k, s)]}

\* a . b over GF(2)
RECURSIVE DotFrom(_, _, _)
DotFrom(a, b, idx) ==
    IF idx >= Length(a) THEN 0
    ELSE BitXor(a[idx] * b[idx], DotFrom(a, b, idx + 1))

Dot(a, b) == DotFrom(a, b, 0)

ConnectionKinds == {"faithful", "noisy"}

\* What one run of the circuit may measure.  A faithful device measures
\* only vectors orthogonal to every period of the function; a noisy one
\* may measure any vector of n bits.
OracleOutputs(c, table, n) ==
    IF c = "faithful"
    THEN {zz \in BitVectors(n) : \A s \in Periods(table, n) : Dot(zz, s) = 0}
    ELSE BitVectors(n)

(***************************************************************************)
(* find_mask                                                               *)
(***************************************************************************)
NoException == "none"

InvalidInput == "ValueError: Bitstring map needs to be a map from bitstring to bitstring"

NoValidMask == "Exception: No valid mask found"

MissingProvenance == "ValueError: Expected a missing provenance, but didn't find one."

\* isinstance(bitstring_map, dict)
IsDict(arg) == arg.kind = "dict"

\* self.n_qubits = len(list(bitstring_map.keys())[0])
KeyLength(table) == Length(CHOOSE k \in DOMAIN table : TRUE)

\* A slip in the condition of the while loop: n in place of n - 1
SamplingUntilFull(d, n) == Length(d) < n

\* The condition of the while loop of _sample_independent_bit_vectors
SamplingContinues(d, n) == Length(d) < n - 1

\* A slip in find_mask: the mask is returned whatever the check says.
FindMaskOutcomeUnchecked(ok, m) ==
    [pc |-> "Done", ret |-> m, exc |-> NoException]

\* A slip in find_mask: a mask the check refuses sends the call back to the
\* sampling loop.
FindMaskOutcomeRetrying(ok, m) ==
    IF ok THEN [pc |-> "Done", ret |-> m, exc |-> NoException]
    ELSE [pc |-> "Sampling", ret |-> NoneV, exc |-> NoException]

\* The end of find_mask: the mask if the check accepted it, an exception
\* otherwise.
FindMaskOutcome(ok, m) ==
    IF ok THEN [pc |-> "Done", ret |-> m, exc |-> NoException]
    ELSE [pc |-> "Failed", ret |-> NoneV, exc |-> NoValidMask]

\* A slip in find_mask: _init_attr runs before the isinstance test, and the
\* refused call leaves an empty dict.
RejectedCallResets(d) == << >>

\* The dict a call refused at the isinstance test leaves: the test comes
\* before _init_attr, so the dict is the one the call found.
RejectedCallLeaves(d) == d

\* A slip in _init_attr: the dict is not emptied, and the entries of the
\* last attempt stay.
InitAttrKeepsDict(d) == d

\* self._dict_of_linearly_indep_bit_vectors = {} in _init_attr
InitAttrDict(d) == << >>

Callable == pc \in {"Idle", "Done", "Failed"}

Init ==
    /\ bitstring_map = [kind |-> "NoneType", value |-> NoneV]
    /\ bit_map = NoneV
    /\ n_qubits = NoInt
    /\ dict_of_linearly_indep_bit_vectors = << >>
    /\ mask = NoneV
    /\ pc = "Idle"
    /\ cxn = "none"
    /\ cxn_called = FALSE
    /\ z = NoneV
    /\ op = "__init__"
    /\ ret = NoneV
    /\ exc = NoException
    /\ missing_prov = NoInt
    /\ upper_triangular_matrix = NoneV
    /\ fed = {}

\* find_mask(cxn, bitstring_map) with something that is no dict: it raises
\* before anything else runs.
FindMaskInvalid(c, arg) ==
    /\ Callable
    /\ ~IsDict(arg)
    /\ bitstring_map' = arg
    /\ dict_of_linearly_indep_bit_vectors' =
           RejectedCallLeaves(dict_of_linearly_indep_bit_vectors)
    /\ pc' = "Failed"
    /\ cxn' = c
    /\ cxn_called' = FALSE
    /\ op' = "find_mask"
    /\ ret' = NoneV
    /\ exc' = InvalidInput
    /\ UNCHANGED <<fed, bit_map, n_qubits, mask, z, missing_prov,
                   upper_triangular_matrix>>

\* find_mask(cxn, bitstring_map) with a dict: _init_attr, then the sampling
\* loop is entered.
FindMaskCall(c, arg) ==
    /\ Callable
    /\ IsDict(arg)
    /\ bitstring_map' = arg
    /\ bit_map' = arg.value
    /\ n_qubits' = KeyLength(arg.value)
    /\ dict_of_linearly_indep_bit_vectors' =
           InitAttrDict(dict_of_linearly_indep_bit_vectors)
    /\ mask' = NoneV
    /\ pc' = "Sampling"
    /\ cxn' = c
    /\ cxn_called' = FALSE
    /\ z' = NoneV
    /\ op' = "_init_attr"
    /\ ret' = NoneV
    /\ exc' = NoException
    /\ missing_prov' = NoInt
    /\ upper_triangular_matrix' = NoneV
    /\ UNCHANGED fed

\* One turn of the loop of _sample_independent_bit_vectors: the circuit is
\* run, and what was measured is handed to the basis.
Sample(zz) ==
    /\ pc = "Sampling"
    /\ SamplingContinues(dict_of_linearly_indep_bit_vectors, n_qubits)
    /\ zz \in OracleOutputs(cxn, bit_map, n_qubits)
    /\ cxn_called' = TRUE
    /\ z' = zz
    /\ dict_of_linearly_indep_bit_vectors' =
           add_to_dict_of_indep_bit_vectors(dict_of_linearly_indep_bit_vectors, zz)
    /\ op' = "_add_to_dict_of_indep_bit_vectors"
    /\ ret' = add_returns(dict_of_linearly_indep_bit_vectors, zz)
    /\ UNCHANGED <<fed, bitstring_map, bit_map, n_qubits, mask, pc, cxn, exc, missing_prov,
                   upper_triangular_matrix>>

\* The loop of _sample_independent_bit_vectors ends.
LeaveSampling ==
    /\ pc = "Sampling"
    /\ ~SamplingContinues(dict_of_linearly_indep_bit_vectors, n_qubits)
    /\ pc' = "Completing"
    /\ op' = "_sample_independent_bit_vectors"
    /\ ret' = NoneV
    /\ UNCHANGED <<fed, bitstring_map, bit_map, n_qubits, dict_of_linearly_indep_bit_vectors, mask,
                   cxn, cxn_called, z, exc, missing_prov, upper_triangular_matrix>>

\* self._invert_mask_equation() inside find_mask; what it raises leaves
\* find_mask.
Invert ==
    /\ pc = "Completing"
    /\ LET r == invert_mask_equation(dict_of_linearly_indep_bit_vectors,
                                     n_qubits, mask)
       IN  /\ dict_of_linearly_indep_bit_vectors' = r.dict
           /\ missing_prov' = r.missing
           /\ upper_triangular_matrix' = r.matrix
           /\ mask' = r.mask
           /\ exc' = r.exc
           /\ pc' = IF r.exc = NoException THEN "Validating" ELSE "Failed"
    /\ op' = "_invert_mask_equation"
    /\ ret' = NoneV
    /\ UNCHANGED <<fed, bitstring_map, bit_map, n_qubits, cxn, cxn_called, z>>

\* The end of find_mask: the mask is checked, and returned or refused.
Validate ==
    /\ pc = "Validating"
    /\ LET r == FindMaskOutcome(check_mask_correct(mask, bit_map), mask)
       IN  /\ pc' = r.pc
           /\ ret' = r.ret
           /\ exc' = r.exc
    /\ op' = "_check_mask_correct"
    /\ mask' = MaskAfterCheck(mask)
    /\ UNCHANGED <<fed, bitstring_map, bit_map, n_qubits, dict_of_linearly_indep_bit_vectors,
                   cxn, cxn_called, z, missing_prov, upper_triangular_matrix>>

Next ==
    \/ \E c \in ConnectionKinds, arg \in NonMappings : FindMaskInvalid(c, arg)
    \/ \E c \in ConnectionKinds, arg \in Mappings : FindMaskCall(c, arg)
    \/ \E zz \in BitVectors(n_qubits) : Sample(zz)
    \/ LeaveSampling
    \/ Invert
    \/ Validate

Spec == Init /\ [][Next]_vars

\* Every bit vector the device can measure, whatever the number of qubits.
AllSamples == UNION {BitVectors(n) : n \in 1..MaxN}

\* find_mask with a device that measures, again and again, every vector it
\* can measure, and with the code after each stage running once the stage
\* is over.
SpecFair ==
    /\ Init
    /\ [][Next]_vars
    /\ \A zz \in AllSamples : WF_vars(Sample(zz))
    /\ WF_vars(LeaveSampling)
    /\ WF_vars(Invert)
    /\ WF_vars(Validate)

(***************************************************************************)
(* The methods called one by one on an object set up by _init_attr, as the *)
(* unit tests of the components call them: any bit vectors fed to the      *)
(* basis, the completer and the solver run on whatever basis is there.     *)
(* pc is "Accumulating" as long as only _add_to_dict_of_indep_bit_vectors  *)
(* has changed the dict, and "Completed" once the completer has.           *)
(***************************************************************************)
InitUnit ==
    /\ bitstring_map \in UnitMappings
    /\ bit_map = bitstring_map.value
    /\ n_qubits = KeyLength(bit_map)
    /\ dict_of_linearly_indep_bit_vectors = << >>
    /\ mask = NoneV
    /\ pc = "Accumulating"
    /\ cxn = "none"
    /\ cxn_called = FALSE
    /\ z = NoneV
    /\ op = "_init_attr"
    /\ ret = NoneV
    /\ exc = NoException
    /\ missing_prov = NoInt
    /\ upper_triangular_matrix = NoneV
    /\ fed = {}

\* self._add_to_dict_of_indep_bit_vectors(zz): what the call does to the
\* object.
CallAdd(zz) ==
    /\ z' = zz
    /\ dict_of_linearly_indep_bit_vectors' =
           add_to_dict_of_indep_bit_vectors(dict_of_linearly_indep_bit_vectors, zz)
    /\ op' = "_add_to_dict_of_indep_bit_vectors"
    /\ ret' = add_returns(dict_of_linearly_indep_bit_vectors, zz)
    /\ exc' = NoException
    /\ UNCHANGED <<bitstring_map, bit_map, n_qubits, mask, pc, cxn, cxn_called, missing_prov,
                   upper_triangular_matrix>>

\* self._add_to_dict_of_indep_bit_vectors(zz)
UnitAdd(zz) ==
    /\ CallAdd(zz)
    /\ UNCHANGED fed

\* self._add_missing_provenance_vector()
UnitComplete ==
    /\ LET r == add_missing_provenance_vector(dict_of_linearly_indep_bit_vectors,
                                              n_qubits)
       IN  /\ dict_of_linearly_indep_bit_vectors' = r.dict
           /\ missing_prov' = r.ret
           /\ ret' = r.ret
           /\ exc' = r.exc
           /\ pc' = IF r.exc = NoException THEN "Completed" ELSE pc
    /\ op' = "_add_missing_provenance_vector"
    /\ UNCHANGED <<fed, bitstring_map, bit_map, n_qubits, mask, cxn, cxn_called, z,
                   upper_triangular_matrix>>

\* self._invert_mask_equation(), called where the matrix it builds is
\* square (at most one provenance is missing): what the back substitution
\* does with fewer rows than columns lies outside simon.py.
UnitInvert ==
    /\ Length(dict_of_linearly_indep_bit_vectors) >= n_qubits - 1
    /\ LET r == invert_mask_equation(dict_of_linearly_indep_bit_vectors,
                                     n_qubits, mask)
       IN  /\ dict_of_linearly_indep_bit_vectors' = r.dict
           /\ missing_prov' = r.missing
           /\ upper_triangular_matrix' = r.matrix
           /\ mask' = r.mask
           /\ exc' = r.exc
           /\ pc' = IF r.exc = NoException THEN "Completed" ELSE pc
    /\ op' = "_invert_mask_equation"
    /\ ret' = NoneV
    /\ UNCHANGED <<fed, bitstring_map, bit_map, n_qubits, cxn, cxn_called, z>>

\* self._check_mask_correct(), once there is a mask
UnitCheck ==
    /\ mask # NoneV
    /\ ret' = check_mask_correct(mask, bit_map)
    /\ exc' = NoException
    /\ op' = "_check_mask_correct"
    /\ mask' = MaskAfterCheck(mask)
    /\ UNCHANGED <<fed, bitstring_map, bit_map, n_qubits, dict_of_linearly_indep_bit_vectors,
                   pc, cxn, cxn_called, z, missing_prov, upper_triangular_matrix>>

NextUnit ==
    \/ \E zz \in BitVectors(n_qubits) : UnitAdd(zz)
    \/ UnitComplete
    \/ UnitInvert
    \/ UnitCheck

SpecUnit == InitUnit /\ [][NextUnit]_vars

(***************************************************************************)
(* _add_to_dict_of_indep_bit_vectors alone, called again and again on an   *)
(* object set up by _init_attr, the vectors handed in being recorded.      *)
(***************************************************************************)
\* self._add_to_dict_of_indep_bit_vectors(zz), zz being recorded
SpanAdd(zz) ==
    /\ Cardinality(fed \cup {zz}) <= MaxFed
    /\ CallAdd(zz)
    /\ fed' = fed \cup {zz}

NextSpan == \E zz \in BitVectors(n_qubits) : SpanAdd(zz)

SpecSpan == InitUnit /\ [][NextSpan]_vars

(***************************************************************************)
(* _check_mask_correct alone, on any truth table and any mask of its       *)
(* length.                                                                 *)
(***************************************************************************)
InitCheck ==
    /\ bitstring_map \in Mappings
    /\ bit_map = bitstring_map.value
    /\ n_qubits = KeyLength(bit_map)
    /\ mask \in BitVectors(n_qubits)
    /\ dict_of_linearly_indep_bit_vectors = << >>
    /\ pc = "Accumulating"
    /\ cxn = "none"
    /\ cxn_called = FALSE
    /\ z = NoneV
    /\ op = "_init_attr"
    /\ ret = NoneV
    /\ exc = NoException
    /\ missing_prov = NoInt
    /\ upper_triangular_matrix = NoneV
    /\ fed = {}

NextCheck == UnitCheck

SpecCheck == InitCheck /\ [][NextCheck]_vars

(***************************************************************************)
(* Properties                                                              *)
(***************************************************************************)
\* The Python list [b0, b1, ...] given as a tuple
Vec(seq) == [idx \in 0..(Len(seq) - 1) |-> seq[idx + 1]]

\* table[k] = table[k XOR m] for every key k of the table
FitsTable(m, table) ==
    \A k \in DOMAIN table : table[k] = table[KeyXor(k, m)]

\* The table is a valid 2-to-1 function of hidden mask s: s is not 0...0,
\* k and k XOR s have the same value, and no other two keys do.
IsValid2to1(table, s) ==
    /\ \E idx \in DOMAIN s : s[idx] = 1
    /\ FitsTable(s, table)
    /\ \A k1, k2 \in DOMAIN table :
           table[k1] = table[k2] => (k2 = k1 \/ k2 = KeyXor(k1, s))

\* A call of find_mask with a dict is under way or has ended.
InAttempt ==
    pc \in {"Sampling", "Completing", "Validating", "Done", "Failed"}
        /\ exc # InvalidInput

\* C1: end-to-end recovery.  In a call of find_mask on a truth table that
\* is a valid 2-to-1 function of hidden mask s, with a device that measures
\* only vectors orthogonal to s (in any order, duplicates and degenerate
\* vectors included), the mask solved once the basis holds n-1 entries is
\* s, the call does not fail, and what it returns is s; for the table of
\* the docstring that is [1, 1, 0], which the check accepts.
C1_EndToEndRecovery ==
    /\ \A s \in BitVectors(n_qubits) :
           (InAttempt /\ cxn = "faithful" /\ IsValid2to1(bit_map, s)) =>
               /\ pc # "Failed"
               /\ pc \in {"Validating", "Done"} => mask = s
               /\ pc = "Done" => ret = s
    /\ (InAttempt /\ cxn = "faithful" /\ bit_map = ExampleTable /\ pc = "Done") =>
           /\ ret = Vec(<<1, 1, 0>>)
           /\ check_mask_correct(Vec(<<1, 1, 0>>), ExampleTable)

\* A call on the table of the docstring, with a faithful device that was
\* run, has returned [1, 1, 0].
C1_Witness ==
    /\ pc = "Done"
    /\ cxn = "faithful"
    /\ bit_map = ExampleTable
    /\ ret = Vec(<<1, 1, 0>>)
    /\ cxn_called

\* C2: find_mask returns a mask only if the check accepted it.  Whatever
\* the device measured, a call that is Done returned self.mask and that
\* mask fits the table; a call whose solved mask does not fit the table
\* has ended Failed with "No valid mask found" and returned nothing.
C2_ReturnsOnlyValidatedMask ==
    /\ pc = "Done" =>
           /\ exc = NoException
           /\ ret = mask
           /\ FitsTable(ret, bit_map)
    /\ (pc \in {"Done", "Failed"} /\ op = "_check_mask_correct"
            /\ ~FitsTable(mask, bit_map)) =>
           /\ pc = "Failed"
           /\ exc = NoValidMask
           /\ ret = NoneV

\* A noisy device led to a mask that does not fit the table, and the call
\* failed.
C2_Witness ==
    /\ pc = "Failed"
    /\ exc = NoValidMask
    /\ cxn = "noisy"
    /\ mask # NoneV
    /\ ~FitsTable(mask, bit_map)

\* The index of the first 1 of v, NoInt if v holds no 1
LeadingOne(v) ==
    IF \E idx \in DOMAIN v : v[idx] = 1
    THEN CHOOSE idx \in DOMAIN v :
             v[idx] = 1 /\ \A j \in DOMAIN v : j < idx => v[j] = 0
    ELSE NoInt

\* C3: basis invariant.  Whatever vectors were fed to the basis, in
\* whatever order, the index of the first 1 of every stored entry is the
\* key it is stored under, and no two entries have the first 1 at the same
\* index.
C3_BasisInvariant ==
    LET d == dict_of_linearly_indep_bit_vectors IN
    pc = "Accumulating" =>
        /\ \A k \in DOMAIN d : LeadingOne(d[k]) = k
        /\ \A k1, k2 \in DOMAIN d :
               k1 # k2 => LeadingOne(d[k1]) # LeadingOne(d[k2])

\* A conflict has been resolved: the last vector fed is not stored, the
\* basis holds two entries, one of them under a key past the first 1 of
\* that vector.
C3_Witness ==
    LET d == dict_of_linearly_indep_bit_vectors IN
    /\ pc = "Accumulating"
    /\ op = "_add_to_dict_of_indep_bit_vectors"
    /\ Length(d) >= 2
    /\ \A k \in DOMAIN d : d[k] # z
    /\ \E k \in DOMAIN d : k > LeadingOne(z) /\ d[k] = XorVec(d[LeadingOne(z)], z)

\* C4: rejection.  Feeding the vector of zeros or the vector of ones to the
\* basis, whatever it holds, leaves it as it was; and as long as only
\* vectors were fed to it, no slot of the basis holds the vector of zeros
\* or the vector of ones.
C4_Rejection ==
    /\ [](pc = "Accumulating" =>
            \A k \in DOMAIN dict_of_linearly_indep_bit_vectors :
                /\ ~AllEqual(dict_of_linearly_indep_bit_vectors[k], 0)
                /\ ~AllEqual(dict_of_linearly_indep_bit_vectors[k], 1))
    /\ [][(op' = "_add_to_dict_of_indep_bit_vectors"
              /\ (AllEqual(z', 0) \/ AllEqual(z', 1)))
            => dict_of_linearly_indep_bit_vectors'
                   = dict_of_linearly_indep_bit_vectors]_vars

\* The vector of ones was fed to a basis that holds entries but none
\* under key 0, where it would have gone.
C4_Witness ==
    /\ op = "_add_to_dict_of_indep_bit_vectors"
    /\ n_qubits >= 2
    /\ AllEqual(z, 1)
    /\ dict_of_linearly_indep_bit_vectors # << >>
    /\ 0 \notin DOMAIN dict_of_linearly_indep_bit_vectors

\* C5: solver correctness.  After _invert_mask_equation has run on a basis
\* with one provenance missing, its matrix M has n rows, row r with its
\* first 1 at column r, the mask is a vector of n bits, and M . mask is the
\* unit vector of the missing provenance: for every row r, the XOR over
\* the columns j of M[r][j] AND mask[j] is 1 if r is the missing
\* provenance and 0 otherwise.
C5_SolverCorrect ==
    (op = "_invert_mask_equation" /\ exc = NoException) =>
        /\ DOMAIN upper_triangular_matrix = 0..(n_qubits - 1)
        /\ \A r \in 0..(n_qubits - 1) : LeadingOne(upper_triangular_matrix[r]) = r
        /\ mask \in BitVectors(n_qubits)
        /\ missing_prov \in 0..(n_qubits - 1)
        /\ \A r \in 0..(n_qubits - 1) :
               Dot(upper_triangular_matrix[r], mask)
                   = (IF r = missing_prov THEN 1 ELSE 0)

\* The solver ran on a matrix of three rows whose first row has ones past
\* the diagonal, the missing provenance being the middle one, and the mask
\* it found has more than one 1.
C5_Witness ==
    /\ op = "_invert_mask_equation"
    /\ exc = NoException
    /\ n_qubits = 3
    /\ missing_prov = 1
    /\ upper_triangular_matrix[0] = Vec(<<1, 1, 0>>)
    /\ mask = Vec(<<1, 1, 0>>)

\* C6: triangular completeness.  When the completer runs on a basis with
\* exactly n-1 entries (alone or inside _invert_mask_equation) it does not
\* fail, the missing provenance it finds is the one index without an entry,
\* the basis it leaves is the old one plus the unit vector of that index,
\* and the n entries, read by increasing key, have their first 1 at
\* 0, 1, ..., n-1: entry i has a 1 at column i and 0 at every column
\* before it.  The matrix of _invert_mask_equation is these n rows.
C6_TriangularCompleteness ==
    [][(op' \in {"_add_missing_provenance_vector", "_invert_mask_equation"}
           /\ Length(dict_of_linearly_indep_bit_vectors) = n_qubits - 1)
        => /\ exc' = NoException
           /\ missing_prov' \in 0..(n_qubits - 1)
           /\ missing_prov' \notin DOMAIN dict_of_linearly_indep_bit_vectors
           /\ DOMAIN dict_of_linearly_indep_bit_vectors' = 0..(n_qubits - 1)
           /\ \A i \in 0..(n_qubits - 1) :
                  /\ dict_of_linearly_indep_bit_vectors'[i] =
                         (IF i = missing_prov'
                          THEN [j \in 0..(n_qubits - 1) |-> IF j = i THEN 1 ELSE 0]
                          ELSE dict_of_linearly_indep_bit_vectors[i])
                  /\ dict_of_linearly_indep_bit_vectors'[i][i] = 1
                  /\ \A j \in 0..(i - 1) :
                         dict_of_linearly_indep_bit_vectors'[i][j] = 0
           /\ op' = "_add_missing_provenance_vector" => ret' = missing_prov'
           /\ op' = "_invert_mask_equation" =>
                  upper_triangular_matrix' = dict_of_linearly_indep_bit_vectors'
      ]_vars

\* The completer has run on a basis of two entries of three bits, the
\* first of them with a 1 past its first 1, and put the unit vector in the
\* middle.
C6_Witness ==
    /\ op = "_add_missing_provenance_vector"
    /\ exc = NoException
    /\ n_qubits = 3
    /\ ret = 1
    /\ DOMAIN dict_of_linearly_indep_bit_vectors = 0..2
    /\ dict_of_linearly_indep_bit_vectors[0] = Vec(<<1, 0, 1>>)
    /\ dict_of_linearly_indep_bit_vectors[1] = Vec(<<0, 1, 0>>)
    /\ dict_of_linearly_indep_bit_vectors[2] = Vec(<<0, 0, 1>>)

\* The indices of 0..n-1 without an entry in the dict d
MissingIndices(d, n) == (0..(n - 1)) \ DOMAIN d

C8_InvalidInputRejected ==
    [][(Callable /\ ~IsDict(bitstring_map')) =>
          /\ pc' = "Failed"
          /\ exc' = InvalidInput
          /\ ret' = NoneV
          /\ cxn_called' = FALSE
          /\ UNCHANGED <<bit_map, n_qubits, dict_of_linearly_indep_bit_vectors,
                         mask, z, missing_prov, upper_triangular_matrix>>
      ]_vars

\* A list was handed to find_mask after an attempt that had filled the
\* basis and solved a mask: the call was refused and both are still there.
C8_Witness ==
    /\ pc = "Failed"
    /\ exc = InvalidInput
    /\ bitstring_map.kind = "list"
    /\ ~cxn_called
    /\ Length(dict_of_linearly_indep_bit_vectors) = 3
    /\ mask # NoneV

\* C9: sampling exit condition.  In a call of find_mask on a truth table
\* of n >= 1 bits, the basis never holds more than n-1 entries while the
\* call is sampling, the device is run only while the basis holds fewer
\* than n-1 entries, the completer is entered with exactly n-1 entries, and
\* the missing-provenance error is never raised.
C9_SamplingExit ==
    /\ []((pc = "Sampling" =>
              Length(dict_of_linearly_indep_bit_vectors) <= n_qubits - 1)
          /\ (pc = "Completing" =>
              Length(dict_of_linearly_indep_bit_vectors) = n_qubits - 1)
          /\ exc # MissingProvenance)
    /\ [][op' = "_add_to_dict_of_indep_bit_vectors" =>
             Length(dict_of_linearly_indep_bit_vectors) < n_qubits - 1]_vars

\* The loop has ended on a basis of two entries of three bits that a noisy
\* device filled, the last of them by an XOR with a conflicting entry.
C9_Witness ==
    /\ pc = "Completing"
    /\ cxn = "noisy"
    /\ n_qubits = 3
    /\ Length(dict_of_linearly_indep_bit_vectors) = 2
    /\ \A k \in DOMAIN dict_of_linearly_indep_bit_vectors :
           dict_of_linearly_indep_bit_vectors[k] # z

\* C10: validator correctness.  _check_mask_correct returns True if and
\* only if table[k] = table[k XOR mask] for every key k of the table: True
\* for the mask 0...0 on any table, False as soon as one key breaks the
\* equality.
C10_ValidatorCorrect ==
    op = "_check_mask_correct" =>
        /\ ret \in BOOLEAN
        /\ (ret = TRUE) <=>
               (\A k \in DOMAIN bit_map : bit_map[k] = bit_map[KeyXor(k, mask)])
        /\ AllEqual(mask, 0) => ret = TRUE

\* The check has refused a mask that some keys of the table agree with
\* and others do not.
C10_Witness ==
    /\ op = "_check_mask_correct"
    /\ ret = FALSE
    /\ \E k \in DOMAIN bit_map : bit_map[k] = bit_map[KeyXor(k, mask)]
    /\ \E k \in DOMAIN bit_map : bit_map[k] # bit_map[KeyXor(k, mask)]

\* C11: fresh basis per attempt.  Every call of find_mask with a dict,
\* whether the object is new or its last call ended Done or Failed, enters
\* the sampling loop with an empty basis and no mask: no entry of an
\* earlier attempt, the unit vector of the completer included, is carried
\* over.
C11_FreshBasisPerAttempt ==
    /\ [](pc = "Sampling" /\ ~cxn_called =>
             /\ dict_of_linearly_indep_bit_vectors = << >>
             /\ mask = NoneV)
    /\ [][(Callable /\ IsDict(bitstring_map')) =>
             /\ pc' = "Sampling"
             /\ dict_of_linearly_indep_bit_vectors' = << >>
             /\ mask' = NoneV
             /\ bit_map' = bitstring_map'.value]_vars

\* A call on a table of three bits has just entered the sampling loop: the
\* device has not run yet, the basis is empty and there is no mask.
C11_Witness ==
    /\ pc = "Sampling"
    /\ op = "_init_attr"
    /\ ~cxn_called
    /\ n_qubits = 3
    /\ dict_of_linearly_indep_bit_vectors = << >>
    /\ mask = NoneV

\* C12: monotonic growth.  Every call of _add_to_dict_of_indep_bit_vectors
\* either leaves the dict as it was or inserts exactly one entry at an
\* index that had none; no stored entry is removed, replaced or modified,
\* so the number of entries never decreases and grows by at most one.
C12_MonotonicGrowth ==
    [][op' = "_add_to_dict_of_indep_bit_vectors" =>
          /\ \A k \in DOMAIN dict_of_linearly_indep_bit_vectors :
                 /\ k \in DOMAIN dict_of_linearly_indep_bit_vectors'
                 /\ dict_of_linearly_indep_bit_vectors'[k] =
                        dict_of_linearly_indep_bit_vectors[k]
          /\ Length(dict_of_linearly_indep_bit_vectors') \in
                 {Length(dict_of_linearly_indep_bit_vectors),
                  Length(dict_of_linearly_indep_bit_vectors) + 1}
          /\ (dict_of_linearly_indep_bit_vectors' =
                  dict_of_linearly_indep_bit_vectors
              \/ \E k \in 0..(n_qubits - 1) :
                     /\ k \notin DOMAIN dict_of_linearly_indep_bit_vectors
                     /\ DOMAIN dict_of_linearly_indep_bit_vectors' =
                            DOMAIN dict_of_linearly_indep_bit_vectors \cup {k})
      ]_vars

\* A sample whose leading one met a different stored entry has just been
\* handed in, and the dict holds both that entry and the XOR of the two at
\* another index.
C12_Witness ==
    /\ op = "_add_to_dict_of_indep_bit_vectors"
    /\ pc = "Accumulating"
    /\ ~IsDegenerate(z)
    /\ most_significant_bit(z) \in DOMAIN dict_of_linearly_indep_bit_vectors
    /\ LET conflict_z == dict_of_linearly_indep_bit_vectors[most_significant_bit(z)]
       IN  /\ conflict_z # z
           /\ most_significant_bit(XorVec(conflict_z, z)) \in
                  DOMAIN dict_of_linearly_indep_bit_vectors
           /\ dict_of_linearly_indep_bit_vectors[
                  most_significant_bit(XorVec(conflict_z, z))] =
                  XorVec(conflict_z, z)

\* C13 as stated: _add_to_dict_of_indep_bit_vectors returns a boolean, true
\* exactly when the call inserted an entry and false exactly when the
\* sample was dropped.
C13_ReturnsWhetherInserted ==
    [][op' = "_add_to_dict_of_indep_bit_vectors" =>
          /\ ret' # NoneV
          /\ ret' = (Length(dict_of_linearly_indep_bit_vectors') >
                         Length(dict_of_linearly_indep_bit_vectors))
      ]_vars

\* C13, amended: _add_to_dict_of_indep_bit_vectors returns None in every
\* case, whether it inserted an entry or dropped the sample; that an entry
\* was inserted shows only in the dict, whose number of entries grew by one
\* exactly when the dict changed.
C13_ReturnsNone ==
    [][op' = "_add_to_dict_of_indep_bit_vectors" =>
          /\ ret' = NoneV
          /\ (dict_of_linearly_indep_bit_vectors' #
                  dict_of_linearly_indep_bit_vectors
              <=> Length(dict_of_linearly_indep_bit_vectors') =
                      Length(dict_of_linearly_indep_bit_vectors) + 1)
      ]_vars

\* A sample has just been handed in and is stored under its leading one as
\* the second entry of the dict, and the call returned None.
C13_Witness ==
    /\ op = "_add_to_dict_of_indep_bit_vectors"
    /\ ret = NoneV
    /\ Length(dict_of_linearly_indep_bit_vectors) = 2
    /\ ~IsDegenerate(z)
    /\ most_significant_bit(z) \in DOMAIN dict_of_linearly_indep_bit_vectors
    /\ dict_of_linearly_indep_bit_vectors[most_significant_bit(z)] = z

\* The order in which find_mask passes through its stages.
StageEdges ==
    {<<"Idle", "Sampling">>, <<"Done", "Sampling">>, <<"Failed", "Sampling">>,
     <<"Idle", "Failed">>, <<"Done", "Failed">>, <<"Failed", "Failed">>,
     <<"Sampling", "Sampling">>, <<"Sampling", "Completing">>,
     <<"Completing", "Validating">>, <<"Completing", "Failed">>,
     <<"Validating", "Done">>, <<"Validating", "Failed">>}

\* C14: stage ordering and no internal retry.  A call of find_mask with a
\* dict passes through _init_attr, the sampling loop, the completer and
\* solver, the check, and then ends either Done or Failed.  The device is
\* run only in the sampling loop; the check runs only on a mask the solver
\* has just produced; an exception ends the call where it was raised; and
\* from Done or Failed nothing happens but a new call of find_mask: no run
\* of the device, no change of the dict, no second solve.
C14_StageOrdering ==
    [][/\ <<pc, pc'>> \in StageEdges
       /\ (pc' = "Sampling" /\ pc # "Sampling") => op' = "_init_attr"
       /\ (cxn_called' /\ ~cxn_called) => (pc = "Sampling" /\ pc' = "Sampling")
       /\ op' = "_add_to_dict_of_indep_bit_vectors" =>
              (pc = "Sampling" /\ pc' = "Sampling" /\ exc' = NoException)
       /\ op' = "_invert_mask_equation" =>
              (pc = "Completing" /\ op = "_sample_independent_bit_vectors")
       /\ op' = "_check_mask_correct" =>
              /\ pc = "Validating"
              /\ op = "_invert_mask_equation"
              /\ mask # NoneV
              /\ exc = NoException
              /\ pc' \in {"Done", "Failed"}
       /\ (exc' # NoException) <=> (pc' = "Failed")
       /\ pc \in {"Done", "Failed"} =>
              /\ op' \in {"_init_attr", "find_mask"}
              /\ pc' \in {"Sampling", "Failed"}
       /\ dict_of_linearly_indep_bit_vectors' # dict_of_linearly_indep_bit_vectors =>
              op' \in {"_init_attr", "_add_to_dict_of_indep_bit_vectors",
                       "_invert_mask_equation"}
       /\ mask' # mask => op' \in {"_init_attr", "_invert_mask_equation"}
      ]_vars

\* A call on a table of three bits ran the device, completed and solved,
\* and ended Failed at the check, the completed dict and the refused mask
\* still in place.
C14_Witness ==
    /\ pc = "Failed"
    /\ op = "_check_mask_correct"
    /\ exc = NoValidMask
    /\ cxn_called
    /\ n_qubits = 3
    /\ Length(dict_of_linearly_indep_bit_vectors) = 3
    /\ mask # NoneV

\* C15: the check has no side effects.  A call of _check_mask_correct
\* leaves the truth table, the dict and the mask as they were, what it
\* returns is the verdict on that mask and table, and a second call right
\* after the first returns the same boolean.
C15_ValidateHasNoSideEffects ==
    [][op' = "_check_mask_correct" =>
          /\ UNCHANGED <<bit_map, n_qubits, dict_of_linearly_indep_bit_vectors, mask>>
          /\ ret' = check_mask_correct(mask, bit_map)
          /\ op = "_check_mask_correct" => ret' = ret
      ]_vars

\* The check has just accepted a mask other than 0...0 on an object whose
\* dict holds three entries.
C15_Witness ==
    /\ op = "_check_mask_correct"
    /\ ret = TRUE
    /\ mask # NoneV
    /\ \E idx \in DOMAIN mask : mask[idx] = 1
    /\ Length(dict_of_linearly_indep_bit_vectors) = 3

\* A call of find_mask is in its sampling loop on a table of two bits or
\* more that is a valid 2-to-1 function, with a device that measures only
\* vectors orthogonal to the hidden mask.
SamplingOnValidTable ==
    /\ pc = "Sampling"
    /\ cxn = "faithful"
    /\ n_qubits >= 2
    /\ \E s \in BitVectors(n_qubits) : IsValid2to1(bit_map, s)

\* C16: sampling liveness under a fair device.  For every table of two
\* bits or more that is a valid 2-to-1 function of a hidden mask other
\* than 0...0, with a device that measures every vector orthogonal to the
\* mask again and again, the sampling loop ends with n-1 entries in the
\* dict and the call ends Done or Failed.
C16_SamplingLiveness ==
    /\ SamplingOnValidTable ~>
           (pc = "Completing" /\
               Length(dict_of_linearly_indep_bit_vectors) = n_qubits - 1)
    /\ SamplingOnValidTable ~> (pc \in {"Done", "Failed"})

\* The XOR of the entries of d stored under the keys in S: bit idx is the
\* parity of the number of those entries with a 1 at idx.
XorOfEntries(d, S, n) ==
    [idx \in 0..(n - 1) |-> Cardinality({k \in S : d[k][idx] = 1}) % 2]

\* No nonempty set of entries of d XORs to the vector of zeros.
LinearlyIndependent(d, n) ==
    \A S \in SUBSET (DOMAIN d) :
        S # {} => ~AllEqual(XorOfEntries(d, S, n), 0)

\* Every vector of n bits is the XOR of some of the entries of d.
Spanning(d, n) ==
    \A v \in BitVectors(n) :
        \E S \in SUBSET (DOMAIN d) : XorOfEntries(d, S, n) = v

\* C17: linear independence.  Whatever vectors were fed to the basis, in
\* whatever order, no nonempty set of stored entries XORs to the vector of
\* zeros; and once the completer has run on a basis of n-1 entries, the n
\* rows are still independent and the matrix is invertible: every vector
\* of n bits is a XOR of rows.
C17_LinearIndependence ==
    /\ [](LinearlyIndependent(dict_of_linearly_indep_bit_vectors, n_qubits))
    /\ [][(op' \in {"_add_missing_provenance_vector", "_invert_mask_equation"}
              /\ Length(dict_of_linearly_indep_bit_vectors) = n_qubits - 1)
           => /\ Length(dict_of_linearly_indep_bit_vectors') = n_qubits
              /\ LinearlyIndependent(dict_of_linearly_indep_bit_vectors', n_qubits)
              /\ Spanning(dict_of_linearly_indep_bit_vectors', n_qubits)
              /\ op' = "_invert_mask_equation" =>
                     /\ Length(upper_triangular_matrix') = n_qubits
                     /\ LinearlyIndependent(upper_triangular_matrix', n_qubits)
                     /\ Spanning(upper_triangular_matrix', n_qubits)
          ]_vars

\* The solver has completed a basis of two entries of three bits, neither
\* of them a unit vector, into a matrix of three rows.
C17_Witness ==
    /\ op = "_invert_mask_equation"
    /\ exc = NoException
    /\ n_qubits = 3
    /\ upper_triangular_matrix # NoneV
    /\ Length(upper_triangular_matrix) = 3
    /\ missing_prov = 2
    /\ upper_triangular_matrix[0] = Vec(<<1, 1, 0>>)
    /\ upper_triangular_matrix[1] = Vec(<<0, 1, 1>>)
    /\ upper_triangular_matrix[2] = Vec(<<0, 0, 1>>)

\* C18: single-step conflict resolution.  When a sample that is neither
\* all zeros nor all ones has its first 1 at an index that holds an entry,
\* the XOR of that entry and the sample is computed once: if it is all
\* zeros, or the index of its first 1 holds an entry too, the dict is left
\* as it was; otherwise the XOR, not the sample, is stored at the index of
\* its first 1, and every other entry, the conflicting one included, stays.
C18_SingleStepConflictResolution ==
    [][(/\ op' = "_add_to_dict_of_indep_bit_vectors"
        /\ ~AllEqual(z', 0)
        /\ ~AllEqual(z', 1)
        /\ LeadingOne(z') \in DOMAIN dict_of_linearly_indep_bit_vectors)
       =>
       LET msb == LeadingOne(z')
           conflict == dict_of_linearly_indep_bit_vectors[msb]
           reduced == [idx \in 0..(n_qubits - 1) |-> (conflict[idx] + z'[idx]) % 2]
           msb2 == LeadingOne(reduced)
       IN  IF msb2 = NoInt \/ msb2 \in DOMAIN dict_of_linearly_indep_bit_vectors
           THEN dict_of_linearly_indep_bit_vectors' =
                    dict_of_linearly_indep_bit_vectors
           ELSE /\ DOMAIN dict_of_linearly_indep_bit_vectors' =
                       DOMAIN dict_of_linearly_indep_bit_vectors \cup {msb2}
                /\ dict_of_linearly_indep_bit_vectors'[msb2] = reduced
                /\ reduced # z'
                /\ dict_of_linearly_indep_bit_vectors'[msb] = conflict
                /\ \A k \in DOMAIN dict_of_linearly_indep_bit_vectors :
                       dict_of_linearly_indep_bit_vectors'[k] =
                           dict_of_linearly_indep_bit_vectors[k]
      ]_vars

\* [1, 1, 0] has just been fed to the dict {0: [1, 0, 1], 1: [0, 1, 0]}: its
\* XOR with the entry at 0 is [0, 1, 1], index 1 is taken, and although a
\* second reduction would give [0, 0, 1] for the free index 2, the dict is
\* as it was.
C18_Witness ==
    /\ op = "_add_to_dict_of_indep_bit_vectors"
    /\ n_qubits = 3
    /\ z = Vec(<<1, 1, 0>>)
    /\ DOMAIN dict_of_linearly_indep_bit_vectors = {0, 1}
    /\ dict_of_linearly_indep_bit_vectors[0] = Vec(<<1, 0, 1>>)
    /\ dict_of_linearly_indep_bit_vectors[1] = Vec(<<0, 1, 0>>)

\* The XOR of the bit vectors in S: bit idx is the parity of the number of
\* vectors of S with a 1 at idx.
XorOfSet(S, n) ==
    [idx \in 0..(n - 1) |-> Cardinality({v \in S : v[idx] = 1}) % 2]

\* The inner product of a and b over GF(2).
Parity(a, b) ==
    Cardinality({idx \in DOMAIN a : a[idx] = 1 /\ b[idx] = 1}) % 2

\* C19: span preservation.  Whatever vectors were fed to the basis, in
\* whatever order, every stored entry is the XOR of a nonempty set of the
\* vectors fed so far; hence every vector s that all the vectors fed are
\* orthogonal to over GF(2) is orthogonal to every stored entry.
C19_SpanPreservation ==
    /\ \A k \in DOMAIN dict_of_linearly_indep_bit_vectors :
           \E S \in SUBSET fed :
               /\ S # {}
               /\ XorOfSet(S, n_qubits) = dict_of_linearly_indep_bit_vectors[k]
    /\ \A s \in BitVectors(n_qubits) :
           (\A v \in fed : Parity(v, s) = 0) =>
               \A k \in DOMAIN dict_of_linearly_indep_bit_vectors :
                   Parity(dict_of_linearly_indep_bit_vectors[k], s) = 0

\* Three vectors have been fed, all orthogonal to a vector other than
\* 0...0, and the dict holds an entry that is none of them: the XOR of two.
C19_Witness ==
    /\ op = "_add_to_dict_of_indep_bit_vectors"
    /\ Cardinality(fed) = 3
    /\ \E k \in DOMAIN dict_of_linearly_indep_bit_vectors :
           dict_of_linearly_indep_bit_vectors[k] \notin fed
    /\ \E s \in BitVectors(n_qubits) :
           /\ ~AllEqual(s, 0)
           /\ \A v \in fed : Parity(v, s) = 0

\* No mask other than 0...0 fits the table: it has no nonzero period.
HasNoPeriod(table, n) ==
    \A m \in BitVectors(n) : FitsTable(m, table) => AllEqual(m, 0)

\* C20: non-trivial mask.  The mask the solver produces inside find_mask
\* has a 1 at the missing provenance, so it is never 0...0; find_mask never
\* returns the mask 0...0; and on a truth table with no nonzero period (a
\* 1-to-1 table, say) no call ends Done: the check refuses the mask and the
\* call ends Failed with "no valid mask found".
C20_NonTrivialMask ==
    /\ [](pc \in {"Validating", "Done"} =>
             /\ missing_prov \in 0..(n_qubits - 1)
             /\ mask[missing_prov] = 1
             /\ ~AllEqual(mask, 0))
    /\ [](pc = "Done" => (ret = mask /\ ~AllEqual(ret, 0)))
    /\ []((InAttempt /\ HasNoPeriod(bit_map, n_qubits)) => pc # "Done")
    /\ [][(pc = "Validating" /\ HasNoPeriod(bit_map, n_qubits)) =>
              (pc' = "Failed" /\ exc' = NoValidMask)]_vars

\* A call on the 1-to-1 table of three bits has left the sampling loop,
\* solved a mask with a 1 at the missing provenance, and ended Failed at
\* the check.
C20_Witness ==
    /\ pc = "Failed"
    /\ exc = NoValidMask
    /\ bit_map = IdentityTable(3)
    /\ cxn_called
    /\ mask # NoneV
    /\ missing_prov \in 0..2
    /\ mask[missing_prov] = 1

====
